---------------------------- MODULE Spec2Model ----------------------------
(***************************************************************************)
(* Model of analyze_runlog.py: the run-log pipeline of main() -- load,     *)
(* filter_stops, the CSV and chart writers, the (test, stage) sequence     *)
(* analyzer and its summary.                                               *)
(*                                                                         *)
(* Text cells are sequences of one-character strings, so that strip,       *)
(* casefold/lower and str() are computed character by character.  The      *)
(* missing value of pandas (NaN) is the one-element sequence <<"NaN">>,    *)
(* which is no text: "NaN" is not a character.                             *)
(***************************************************************************)
EXTENDS Integers, Sequences, FiniteSets, TLC

VARIABLES
    file_exists,   \* os.path.exists(RUNLOG_PATH)
    df,            \* the table read_csv returns: [columns, rows]
    pc,            \* position of main()
    stops,         \* main's local `stops` (the Stop Event collection)
    stops_seq,     \* main's local `stops_seq`
    seq_summary,   \* main's local `seq_summary`
    written,       \* the files of OUTPUT_DIR written so far
    exc,           \* the exception raised in the try block, or NoExc
    printed,       \* the lines printed to standard output
    ret            \* main's return value, or NoRet

vars == <<file_exists, df, pc, stops, stops_seq, seq_summary, written, exc, printed, ret>>

-----------------------------------------------------------------------------
(* Bounds *)

MaxRows == 3          \* rows of a run log, filter-side inputs
MaxRowsMissing == 1   \* rows of a run log that lacks required columns
MaxSeqRows == 3       \* rows of a run log, sequence-side inputs

-----------------------------------------------------------------------------
(* Configuration, lines 9-17 *)

STOP_VALUE == <<"S", "t", "o", "p", "p", "e", "d">>

COL_ABORTED == "Aborted"
COL_USER == "User Name"
COL_TEST_NAME == "Test Name"
COL_TEST_DATETIME == "Test Date Time"
COL_PART_NUMBER == "Part Number"
COL_STAGE_SERIAL == "Stage Serial Number"

\* The list filter_stops checks, in its order (line 41).
RequiredColumns ==
    <<COL_ABORTED, COL_USER, COL_TEST_NAME, COL_TEST_DATETIME, COL_PART_NUMBER, COL_STAGE_SERIAL>>

-----------------------------------------------------------------------------
(* Values of pandas and Python *)

NaN == <<"NaN">>      \* a missing cell
NaT == -1             \* a missing timestamp (to_datetime, errors="coerce")
None == <<"None">>    \* Python's None, the initial last_key components

IsNA(c) == c = NaN

Whitespace == {" "}

\* Code point of a character, for the ordering of text.
Code(c) ==
    CASE c = " " -> 32
      [] c = "0" -> 48 [] c = "1" -> 49 [] c = "2" -> 50 [] c = "3" -> 51
      [] c = "A" -> 65 [] c = "B" -> 66 [] c = "D" -> 68 [] c = "E" -> 69
      [] c = "L" -> 76 [] c = "O" -> 79 [] c = "P" -> 80 [] c = "S" -> 83
      [] c = "T" -> 84
      [] c = "a" -> 97 [] c = "b" -> 98 [] c = "d" -> 100 [] c = "e" -> 101
      [] c = "l" -> 108 [] c = "n" -> 110 [] c = "o" -> 111 [] c = "p" -> 112
      [] c = "s" -> 115 [] c = "t" -> 116 [] c = "x" -> 120

\* str.lower / str.casefold of one (ASCII) character.
LowerChar(c) ==
    CASE c = "A" -> "a" [] c = "B" -> "b" [] c = "D" -> "d" [] c = "E" -> "e"
      [] c = "L" -> "l" [] c = "O" -> "o" [] c = "P" -> "p" [] c = "S" -> "s"
      [] c = "T" -> "t"
      [] OTHER -> c

\* str.casefold() / str.lower() of a text.
Casefold(s) == [i \in 1..Len(s) |-> LowerChar(s[i])]

RECURSIVE LStrip(_)
LStrip(s) == IF s # <<>> /\ Head(s) \in Whitespace THEN LStrip(Tail(s)) ELSE s

RECURSIVE RStrip(_)
RStrip(s) ==
    IF s # <<>> /\ s[Len(s)] \in Whitespace THEN RStrip(SubSeq(s, 1, Len(s) - 1)) ELSE s

\* str.strip()
Strip(s) == RStrip(LStrip(s))

\* str(x) / Series.astype(str) of a cell: a missing value becomes the text "nan".
Str(c) == IF IsNA(c) THEN <<"n", "a", "n">> ELSE c

Digit(c) == Code(c) - 48
IsDigit(c) == c \in {"0", "1", "2", "3"}

\* pd.to_datetime(cell, errors="coerce"): a cell in the log's date format (here two
\* digits) is its timestamp, every other cell (other text, a missing cell) is NaT.
ToDatetime(c) ==
    IF ~IsNA(c) /\ Len(c) = 2 /\ IsDigit(c[1]) /\ IsDigit(c[2])
    THEN 10 * Digit(c[1]) + Digit(c[2])
    ELSE NaT

\* Text order of Python: lexicographic on code points, a proper prefix first.
RECURSIVE StrLess(_, _)
StrLess(a, b) ==
    IF b = <<>> THEN FALSE
    ELSE IF a = <<>> THEN TRUE
    ELSE IF Code(Head(a)) # Code(Head(b)) THEN Code(Head(a)) < Code(Head(b))
    ELSE StrLess(Tail(a), Tail(b))

\* Order of one sort column: text ascending, missing values last (na_position="last").
CellLess(a, b) ==
    IF IsNA(a) THEN FALSE
    ELSE IF IsNA(b) THEN TRUE
    ELSE StrLess(a, b)

Range(s) == {s[i] : i \in 1..Len(s)}

-----------------------------------------------------------------------------
(* Exceptions and files *)

NoExc == [type |-> "none", args |-> <<>>]
NoRet == -1

FileNotFoundError == [type |-> "FileNotFoundError", args |-> <<>>]
KeyError(missing) == [type |-> "KeyError", args |-> missing]
TypeError == [type |-> "TypeError", args |-> <<>>]
ValueError == [type |-> "ValueError", args |-> <<>>]
\* A failure of the file system under OUTPUT_DIR (makedirs, to_csv, write_html).
OSError == [type |-> "OSError", args |-> <<>>]

STOPS_CSV == "stopped_events.csv"
USER_HTML == "stops_per_user.html"
TEST_HTML == "stops_per_test.html"
PART_HTML == "stops_per_part.html"
STAGE_HTML == "stops_per_stage.html"
SEQ_CSV == "consecutive_stops_sequences.csv"
HIST_HTML == "consecutive_stops_hist.html"

BarCharts == {USER_HTML, TEST_HTML, PART_HTML, STAGE_HTML}

-----------------------------------------------------------------------------
(* filter_stops, lines 40-59 *)

\* only the first absent column reported
C8_FirstMissingOnly(d) ==
    LET m == SelectSeq(RequiredColumns, LAMBDA c : c \notin d.columns)
    IN  IF m = <<>> THEN <<>> ELSE <<Head(m)>>

\* line 41: the required columns absent from the table, in the order of the list
MissingColumns(d) == SelectSeq(RequiredColumns, LAMBDA c : c \notin d.columns)

\* the mask without str.strip()
C1_IsStopUntrimmed(r) == Casefold(Str(r[COL_ABORTED])) = Casefold(STOP_VALUE)

\* line 44: the row mask
IsStop(r) == Casefold(Strip(Str(r[COL_ABORTED]))) = Casefold(STOP_VALUE)

\* line 44: df[mask]; every kept row carries its index label (RangeIndex, from 0)
MaskRows(d) ==
    LET labelled == [i \in 1..Len(d.rows) |-> [index |-> i - 1, row |-> d.rows[i]]]
    IN  SelectSeq(labelled, LAMBDA x : IsStop(x.row))

\* lines 32-37, 45: the timestamp column parsed in place, no row dropped
NormalizeDatetime(rows, column) ==
    [i \in 1..Len(rows) |->
        [rows[i] EXCEPT !.row = [@ EXCEPT ![column] = ToDatetime(@)]]]

\* line 56: the user name as text, stripped and lowercased
NormalizeUser(c) == Casefold(Strip(Str(c)))

\* lines 47-56: projection to the five columns, renamed; user_name normalised
Project(x) ==
    [index         |-> x.index,
     user_name     |-> NormalizeUser(x.row[COL_USER]),
     test_name     |-> x.row[COL_TEST_NAME],
     test_datetime |-> x.row[COL_TEST_DATETIME],
     part_number   |-> x.row[COL_PART_NUMBER],
     stage_serial  |-> x.row[COL_STAGE_SERIAL]]

\* line 58: dropna(subset=["test_datetime"])
DropNaT(rows) == SelectSeq(rows, LAMBDA e : e.test_datetime # NaT)

\* the comparison of a descending sort
C2_DatetimeGeq(a, b) == a.test_datetime >= b.test_datetime

\* line 58: the sort key comparison of sort_values("test_datetime")
DatetimeLeq(a, b) == a.test_datetime <= b.test_datetime

\* line 58: sort_values("test_datetime") with the default, unstable sort: every
\* arrangement of the rows that is ascending in the key is a possible result.
SortByDatetime(rows) ==
    LET n == Len(rows)
    IN  { [i \in 1..n |-> rows[p[i]]] :
            p \in { q \in Permutations(1..n) :
                      \A i \in 1..(n - 1) : DatetimeLeq(rows[q[i]], rows[q[i + 1]]) } }

\* lines 58, 150: reset_index(drop=True)
ResetIndex(rows) == [i \in 1..Len(rows) |-> [rows[i] EXCEPT !.index = i - 1]]

\* lines 48-54: the columns of the Stop Event collection
StopColumns == {"user_name", "test_name", "test_datetime", "part_number", "stage_serial"}

\* lines 44-59: the possible results of filter_stops on a table with all columns
FilterStops(d) ==
    LET masked    == MaskRows(d)
        parsed    == NormalizeDatetime(masked, COL_TEST_DATETIME)
        projected == [i \in 1..Len(parsed) |-> Project(parsed[i])]
    IN  { [columns |-> StopColumns, rows |-> ResetIndex(s)] :
            s \in SortByDatetime(DropNaT(projected)) }

-----------------------------------------------------------------------------
(* analyze_consecutive_stops_by_test_stage, lines 142-172 *)

\* line 150: the order of sort_values(["test_name", "stage_serial", "test_datetime"])
RowLess(a, b) ==
    \/ CellLess(a.test_name, b.test_name)
    \/ /\ a.test_name = b.test_name
       /\ \/ CellLess(a.stage_serial, b.stage_serial)
          \/ /\ a.stage_serial = b.stage_serial
             /\ a.test_datetime < b.test_datetime

\* no sort: the rows stay in time order
C10_InsertLast(s, e) == Append(s, e)

\* e put into the sorted s behind every row that is not greater than it
Insert(s, e) ==
    LET k == Cardinality({i \in 1..Len(s) : ~RowLess(e, s[i])})
    IN  SubSeq(s, 1, k) \o <<e>> \o SubSeq(s, k + 1, Len(s))

\* line 150: sort_values on several columns is a stable lexicographic sort
RECURSIVE SortByTestStageTime(_)
SortByTestStageTime(rows) ==
    IF rows = <<>> THEN <<>>
    ELSE Insert(SortByTestStageTime(SubSeq(rows, 1, Len(rows) - 1)), rows[Len(rows)])

\* lines 151-155: the state of the scan before the first row
ScanInit ==
    [current_seq            |-> 0,
     last_key               |-> <<None, None>>,
     last_seq_index_for_key |-> <<>>,
     sequence_ids           |-> <<>>,
     sequence_index         |-> <<>>]

\* a key that also holds the user
C4_KeyWithUser(row) == <<Str(row.test_name), Str(row.stage_serial), row.user_name>>

\* line 158
KeyOf(row) == <<Str(row.test_name), Str(row.stage_serial)>>

\* the loop body with the index of a new sequence started at 0
C3_ScanStepFromZero(st, row) ==
    LET key == <<Str(row.test_name), Str(row.stage_serial)>>
    IN  IF key # st.last_key
        THEN [current_seq            |-> st.current_seq + 1,
              last_key               |-> key,
              last_seq_index_for_key |-> (key :> 0) @@ st.last_seq_index_for_key,
              sequence_ids           |-> Append(st.sequence_ids, st.current_seq + 1),
              sequence_index         |-> Append(st.sequence_index, 0)]
        ELSE LET n == st.last_seq_index_for_key[key] + 1
             IN  [st EXCEPT !.last_seq_index_for_key = (key :> n) @@ @,
                            !.sequence_ids = Append(@, st.current_seq),
                            !.sequence_index = Append(@, n)]

\* lines 158-168: one iteration of the loop
ScanStep(st, row) ==
    LET key == KeyOf(row)
    IN  IF key # st.last_key
        THEN [current_seq            |-> st.current_seq + 1,
              last_key               |-> key,
              last_seq_index_for_key |-> (key :> 1) @@ st.last_seq_index_for_key,
              sequence_ids           |-> Append(st.sequence_ids, st.current_seq + 1),
              sequence_index         |-> Append(st.sequence_index, 1)]
        ELSE LET n == st.last_seq_index_for_key[key] + 1
             IN  [st EXCEPT !.last_seq_index_for_key = (key :> n) @@ @,
                            !.sequence_ids = Append(@, st.current_seq),
                            !.sequence_index = Append(@, n)]

\* lines 157-168: the loop over the first k rows
RECURSIVE Scan(_, _)
Scan(rows, k) == IF k = 0 THEN ScanInit ELSE ScanStep(Scan(rows, k - 1), rows[k])

\* a row with the two new columns (lines 170-171)
WithSeq(e, id, idx) ==
    [index          |-> e.index,
     user_name      |-> e.user_name,
     test_name      |-> e.test_name,
     test_datetime  |-> e.test_datetime,
     part_number    |-> e.part_number,
     stage_serial   |-> e.stage_serial,
     sequence_id    |-> id,
     sequence_index |-> idx]

\* lines 147-172
AnalyzeConsecutiveStops(t) ==
    IF t.rows = <<>>
    THEN [columns |-> t.columns \cup {"sequence_id", "sequence_index"}, rows |-> <<>>]
    ELSE LET sorted == ResetIndex(SortByTestStageTime(t.rows))
             st     == Scan(sorted, Len(sorted))
         IN  [columns |-> t.columns \cup {"sequence_id", "sequence_index"},
              rows    |-> [i \in 1..Len(sorted) |->
                             WithSeq(sorted[i], st.sequence_ids[i], st.sequence_index[i])]]

-----------------------------------------------------------------------------
(* summarize_sequences_by_test_stage, lines 175-191 *)

SetMin(S) == CHOOSE x \in S : \A y \in S : x <= y
SetMax(S) == CHOOSE x \in S : \A y \in S : x >= y

\* the group keys in ascending order (groupby sorts its keys)
RECURSIVE SortedKeys(_)
SortedKeys(S) == IF S = {} THEN <<>> ELSE <<SetMin(S)>> \o SortedKeys(S \ {SetMin(S)})

\* the last value of the column that is not missing
C9_LastPresent(cells) ==
    LET present == SelectSeq(cells, LAMBDA c : c # NaN)
    IN  IF present = <<>> THEN NaN ELSE present[Len(present)]

\* groupby(...).first(): the first value of the column that is not missing, and a
\* missing value when the group has none
First(cells) ==
    LET present == SelectSeq(cells, LAMBDA c : ~IsNA(c))
    IN  IF present = <<>> THEN NaN ELSE Head(present)

SummaryColumns ==
    {"sequence_id", "start_time", "end_time", "num_stops",
     "user_name", "test_name", "part_number", "stage_serial"}

\* the aggregates with end_time taken as the minimum, like start_time
C5_AggregateEndIsMin(id, group) ==
    [sequence_id  |-> id,
     start_time   |-> SetMin({group[i].test_datetime : i \in 1..Len(group)}),
     end_time     |-> SetMin({group[i].test_datetime : i \in 1..Len(group)}),
     num_stops    |-> SetMax({group[i].sequence_index : i \in 1..Len(group)}),
     user_name    |-> First([i \in 1..Len(group) |-> group[i].user_name]),
     test_name    |-> First([i \in 1..Len(group) |-> group[i].test_name]),
     part_number  |-> First([i \in 1..Len(group) |-> group[i].part_number]),
     stage_serial |-> First([i \in 1..Len(group) |-> group[i].stage_serial])]

\* lines 181-187: the aggregates of one group, its rows in their order
Aggregate(id, group) ==
    [sequence_id  |-> id,
     start_time   |-> SetMin({group[i].test_datetime : i \in 1..Len(group)}),
     end_time     |-> SetMax({group[i].test_datetime : i \in 1..Len(group)}),
     num_stops    |-> SetMax({group[i].sequence_index : i \in 1..Len(group)}),
     user_name    |-> First([i \in 1..Len(group) |-> group[i].user_name]),
     test_name    |-> First([i \in 1..Len(group) |-> group[i].test_name]),
     part_number  |-> First([i \in 1..Len(group) |-> group[i].part_number]),
     stage_serial |-> First([i \in 1..Len(group) |-> group[i].stage_serial])]

\* lines 175-191
SummarizeSequences(t) ==
    IF "sequence_id" \notin t.columns
    THEN [columns |-> {}, rows |-> <<>>]
    ELSE LET ids == SortedKeys({t.rows[i].sequence_id : i \in 1..Len(t.rows)})
         IN  [columns |-> SummaryColumns,
              rows    |-> [k \in 1..Len(ids) |->
                             Aggregate(ids[k],
                                       SelectSeq(t.rows, LAMBDA e : e.sequence_id = ids[k]))]]

\* DataFrame.empty: some axis has length 0
IsEmpty(t) == t.rows = <<>> \/ t.columns = {}

-----------------------------------------------------------------------------
(* plot_stops_per_stage, lines 105-139 *)

\* lines 107-111: groupby("stage_serial") leaves out the rows without a stage; for
\* each group ", ".join(sorted(set(part_number))) raises TypeError when the group
\* holds a missing part number (a float among the texts).
PlotStageRaises(t) ==
    \E i \in 1..Len(t.rows) :
        ~IsNA(t.rows[i].stage_serial) /\ IsNA(t.rows[i].part_number)

\* lines 107-117: when no row has a stage the grouped table is empty, and what
\* apply(..., axis=1) returns for it depends on the pandas release: a column, or a
\* table that the assignment of line 114 refuses with ValueError.
PlotStageMayRaise(t) ==
    \A i \in 1..Len(t.rows) : IsNA(t.rows[i].stage_serial)

-----------------------------------------------------------------------------
(* main, lines 202-231 *)

Raise(e) ==
    /\ pc' = "except"
    /\ exc' = e

\* a refused write that is swallowed: the exception is noted and main goes on
C6_WriteFileGoesOn(name, next) ==
    \/ /\ written' = written \cup {name}
       /\ pc' = next
       /\ exc' = exc
    \/ /\ exc' = OSError
       /\ pc' = next
       /\ written' = written

\* ensure_output_dir and the write of one file: done, or refused by the file system
WriteFile(name, next) ==
    \/ /\ written' = written \cup {name}
       /\ pc' = next
       /\ exc' = exc
    \/ /\ Raise(OSError)
       /\ written' = written

\* line 204, read_runlog (lines 24-29)
MainLoad ==
    /\ pc = "load"
    /\ IF ~file_exists
       THEN Raise(FileNotFoundError)
       ELSE pc' = "filter" /\ exc' = exc
    /\ UNCHANGED <<file_exists, df, stops, stops_seq, seq_summary, written, printed, ret>>

\* line 205, filter_stops (lines 40-59)
MainFilter ==
    /\ pc = "filter"
    /\ LET missing == MissingColumns(df)
       IN  IF missing # <<>>
           THEN Raise(KeyError(missing)) /\ stops' = stops
           ELSE /\ stops' \in FilterStops(df)
                /\ pc' = "save_stops"
                /\ exc' = exc
    /\ UNCHANGED <<file_exists, df, stops_seq, seq_summary, written, printed, ret>>

\* line 206, save_stops_csv (lines 62-66)
MainSaveStops ==
    /\ pc = "save_stops"
    /\ WriteFile(STOPS_CSV, "plot_user")
    /\ UNCHANGED <<file_exists, df, stops, stops_seq, seq_summary, printed, ret>>

\* the chart rendered without the test for an empty collection
C7_MainPlotUnguarded(at, name, next) ==
    /\ pc = at
    /\ \/ /\ written' = written \cup {name}
          /\ pc' = next
          /\ exc' = exc
       \/ /\ pc' = "except"
          /\ exc' = OSError
          /\ written' = written
    /\ UNCHANGED <<file_exists, df, stops, stops_seq, seq_summary, printed, ret>>

\* one of lines 209-211: a bar chart of counts, skipped when there are no stops
MainPlot(at, name, next) ==
    /\ pc = at
    /\ IF ~IsEmpty(stops)
       THEN WriteFile(name, next)
       ELSE pc' = next /\ UNCHANGED <<written, exc>>
    /\ UNCHANGED <<file_exists, df, stops, stops_seq, seq_summary, printed, ret>>

MainPlotUser == MainPlot("plot_user", USER_HTML, "plot_test")
MainPlotTest == MainPlot("plot_test", TEST_HTML, "plot_part")
MainPlotPart == MainPlot("plot_part", PART_HTML, "plot_stage")

\* line 212, plot_stops_per_stage (lines 105-139)
MainPlotStage ==
    /\ pc = "plot_stage"
    /\ IF IsEmpty(stops)
       THEN pc' = "analyze" /\ UNCHANGED <<written, exc>>
       ELSE IF PlotStageRaises(stops)
            THEN Raise(TypeError) /\ written' = written
            ELSE \/ WriteFile(STAGE_HTML, "analyze")
                 \/ /\ PlotStageMayRaise(stops)
                    /\ Raise(ValueError)
                    /\ written' = written
    /\ UNCHANGED <<file_exists, df, stops, stops_seq, seq_summary, printed, ret>>

\* line 215
MainAnalyze ==
    /\ pc = "analyze"
    /\ stops_seq' = AnalyzeConsecutiveStops(stops)
    /\ pc' = "summarize"
    /\ UNCHANGED <<file_exists, df, stops, seq_summary, written, exc, printed, ret>>

\* line 216
MainSummarize ==
    /\ pc = "summarize"
    /\ seq_summary' = SummarizeSequences(stops_seq)
    /\ pc' = "save_seq"
    /\ UNCHANGED <<file_exists, df, stops, stops_seq, written, exc, printed, ret>>

\* lines 217-218
MainSaveSeq ==
    /\ pc = "save_seq"
    /\ WriteFile(SEQ_CSV, "hist")
    /\ UNCHANGED <<file_exists, df, stops, stops_seq, seq_summary, printed, ret>>

\* line 219, plot_sequence_histogram (lines 194-199)
MainHist ==
    /\ pc = "hist"
    /\ IF IsEmpty(seq_summary)
       THEN pc' = "report" /\ UNCHANGED <<written, exc>>
       ELSE WriteFile(HIST_HTML, "report")
    /\ UNCHANGED <<file_exists, df, stops, stops_seq, seq_summary, printed, ret>>

Line(text, arg) == [text |-> text, arg |-> arg]

\* lines 221-227: one line per output that was produced, in this order
ReportLines ==
    SelectSeq(<<Line("Stopped events saved to:", STOPS_CSV),
                Line("HTML saved:", USER_HTML),
                Line("HTML saved:", TEST_HTML),
                Line("HTML saved:", PART_HTML),
                Line("HTML saved:", STAGE_HTML),
                Line("Sequences (Test, Stage) saved to:", SEQ_CSV),
                Line("HTML saved:", HIST_HTML)>>,
              LAMBDA l : l.arg \in written)

\* lines 221-228
MainReport ==
    /\ pc = "report"
    /\ printed' = printed \o ReportLines
    /\ ret' = 0
    /\ pc' = "done"
    /\ UNCHANGED <<file_exists, df, stops, stops_seq, seq_summary, written, exc>>

\* lines 229-231
MainExcept ==
    /\ pc = "except"
    /\ printed' = Append(printed, Line("Error:", exc.type))
    /\ ret' = 1
    /\ pc' = "done"
    /\ UNCHANGED <<file_exists, df, stops, stops_seq, seq_summary, written, exc>>

Next ==
    \/ MainLoad
    \/ MainFilter
    \/ MainSaveStops
    \/ MainPlotUser
    \/ MainPlotTest
    \/ MainPlotPart
    \/ MainPlotStage
    \/ MainAnalyze
    \/ MainSummarize
    \/ MainSaveSeq
    \/ MainHist
    \/ MainReport
    \/ MainExcept

-----------------------------------------------------------------------------
(* The run logs main() is started on *)

Txt_Stopped  == <<"S", "t", "o", "p", "p", "e", "d">>
Txt_STOPPED_ == <<" ", "S", "T", "O", "P", "P", "E", "D", " ">>
Txt_Stop     == <<"S", "t", "o", "p">>

Row(a, u, t, d, p, s) ==
    (COL_ABORTED :> a) @@ (COL_USER :> u) @@ (COL_TEST_NAME :> t) @@
    (COL_TEST_DATETIME :> d) @@ (COL_PART_NUMBER :> p) @@ (COL_STAGE_SERIAL :> s)

\* Rows that differ in the status cell and in the timestamp cell (two dates, a
\* text that is no date, a missing cell), of two users: stop rows with every
\* timestamp cell, other rows with a date and with a text that is no date
FilterRows ==
    { Row(a, v[2], <<"T", "1">>, v[1], v[3], <<"S", "1">>) :
        a \in {Txt_Stopped, Txt_STOPPED_},
        v \in {<<<<"0", "1">>, <<"A", "l", " ">>, <<"P", "1">>>>,
               <<<<"0", "1">>, <<"B", "O">>,      <<"P", "1">>>>,
               <<<<"0", "2">>, <<"B", "O">>,      NaN>>,
               <<<<"x">>,      <<"A", "l", " ">>, <<"P", "1">>>>,
               <<NaN,          <<"B", "O">>,      <<"P", "1">>>>} }
    \cup
    { Row(a, <<"A", "l", " ">>, <<"T", "1">>, d, <<"P", "1">>, <<"S", "1">>) :
        a \in {Txt_Stop, NaN},
        d \in {<<"0", "1">>, <<"x">>} }

\* Stop rows that differ in test, stage, time, user and part number
SeqRows ==
    { Row(Txt_Stopped, v[2], k[1], v[1], v[3], k[2]) :
        k \in {<<<<"T", "1">>, <<"S", "1">>>>, <<<<"T", "1">>, NaN>>, <<<<"T", "2">>, <<"S", "1">>>>},
        v \in {<<<<"0", "1">>, <<"A", "l", " ">>, <<"P", "1">>>>,
               <<<<"0", "1">>, <<"B", "O">>,      NaN>>,
               <<<<"0", "2">>, <<"A", "l", " ">>, <<"P", "1">>>>,
               <<<<"0", "2">>, <<"B", "O">>,      NaN>>,
               <<<<"0", "3">>, <<"A", "l", " ">>, <<"P", "1">>>>} }

SeqUpTo(S, n) == UNION {[1..k -> S] : k \in 0..n}

Restrict(f, D) == [x \in D |-> f[x]]

AllColumns == Range(RequiredColumns)

\* read_csv of a file with every required column
FullTables(rows, n) == { [columns |-> AllColumns, rows |-> r] : r \in SeqUpTo(rows, n) }

\* read_csv of a file that lacks some required columns
PartialTables(rows, n) ==
    UNION { { [columns |-> cols, rows |-> r] :
                r \in SeqUpTo({Restrict(x, cols) : x \in rows}, n) } :
            cols \in (SUBSET AllColumns) \ {AllColumns} }

InitLocals ==
    /\ pc = "load"
    /\ stops = [columns |-> {}, rows |-> <<>>]
    /\ stops_seq = [columns |-> {}, rows |-> <<>>]
    /\ seq_summary = [columns |-> {}, rows |-> <<>>]
    /\ written = {}
    /\ exc = NoExc
    /\ printed = <<>>
    /\ ret = NoRet

Init ==
    /\ InitLocals
    /\ \/ /\ file_exists = TRUE
          /\ df \in FullTables(FilterRows, MaxRows) \cup PartialTables(FilterRows, MaxRowsMissing)
       \/ /\ file_exists = FALSE
          /\ df = [columns |-> {}, rows |-> <<>>]

InitSeq ==
    /\ InitLocals
    /\ \/ /\ file_exists = TRUE
          /\ df \in FullTables(SeqRows, MaxSeqRows)
       \/ /\ file_exists = FALSE
          /\ df = [columns |-> {}, rows |-> <<>>]

Spec == Init /\ [][Next]_vars

SpecSeq == InitSeq /\ [][Next]_vars
-----------------------------------------------------------------------------
(* Properties of filter_stops *)

\* main has the result of filter_stops
Filtered == stops.columns # {}

\* The five attributes of a Stop Event, without its row index
Data(e) ==
    [user_name     |-> e.user_name,
     test_name     |-> e.test_name,
     test_datetime |-> e.test_datetime,
     part_number   |-> e.part_number,
     stage_serial  |-> e.stage_serial]

\* the Aborted value as text, trimmed and case-folded, is the stop marker
MatchesStopMarker(r) == Casefold(Strip(Str(r["Aborted"]))) = <<"s", "t", "o", "p", "p", "e", "d">>

\* the Test Date Time value parses to a timestamp
HasTimestamp(r) == ToDatetime(r["Test Date Time"]) # NaT

\* the rows of the input table that are stops with a timestamp
StopRowNumbers == {j \in 1..Len(df.rows) : MatchesStopMarker(df.rows[j]) /\ HasTimestamp(df.rows[j])}

\* the Stop Event of an input row
EventOf(r) ==
    [user_name     |-> Casefold(Strip(Str(r["User Name"]))),
     test_name     |-> r["Test Name"],
     test_datetime |-> ToDatetime(r["Test Date Time"]),
     part_number   |-> r["Part Number"],
     stage_serial  |-> r["Stage Serial Number"]]

\* C1: the Stop Event collection holds exactly one event for every input row whose
\* Aborted value (as text, trimmed, case-folded) is the stop marker and whose Test
\* Date Time parses, and nothing else: as many events as such rows, and every event
\* occurs as often as there are such rows it is the event of.
C1_ExactlyTheStopRows ==
    Filtered =>
        /\ Len(stops.rows) = Cardinality(StopRowNumbers)
        /\ \A i \in 1..Len(stops.rows) :
              Cardinality({k \in 1..Len(stops.rows) : Data(stops.rows[k]) = Data(stops.rows[i])})
                = Cardinality({j \in StopRowNumbers : EventOf(df.rows[j]) = Data(stops.rows[i])})

\* a table with a stop row that is kept (matched only after trimming and case
\* folding), a stop row without a timestamp and a row that is no stop
C1_Witness ==
    /\ Filtered
    /\ stops.rows # <<>>
    /\ \E j \in StopRowNumbers : df.rows[j]["Aborted"] # STOP_VALUE
    /\ \E j \in 1..Len(df.rows) : MatchesStopMarker(df.rows[j]) /\ ~HasTimestamp(df.rows[j])
    /\ \E j \in 1..Len(df.rows) : ~MatchesStopMarker(df.rows[j])

\* C2: the events are in non-decreasing test_datetime order and carry the row
\* index 0..n-1.
C2_SortedAndIndexed ==
    Filtered =>
        /\ \A i \in 1..Len(stops.rows) : stops.rows[i].index = i - 1
        /\ \A i \in 1..(Len(stops.rows) - 1) :
              stops.rows[i].test_datetime <= stops.rows[i + 1].test_datetime

\* two stops that stand in the file in descending time order, behind a dropped row
C2_Witness ==
    /\ Filtered
    /\ Len(stops.rows) = 2
    /\ Len(df.rows) = 3
    /\ 1 \notin StopRowNumbers
    /\ ToDatetime(df.rows[2]["Test Date Time"]) > ToDatetime(df.rows[3]["Test Date Time"])

\* C8: when a required column is absent, filter_stops fails with a missing-column
\* error that lists exactly the absent required columns, before any row is
\* filtered; main writes no file and returns 1.
C8_MissingColumns ==
    (file_exists /\ df.columns # AllColumns /\ pc \notin {"load", "filter"}) =>
        /\ exc.type = "KeyError"
        /\ Range(exc.args) = AllColumns \ df.columns
        /\ Len(exc.args) = Cardinality(AllColumns \ df.columns)
        /\ ~Filtered
        /\ written = {}
        /\ pc \in {"except", "done"}
        /\ pc = "done" => ret = 1

C8_Witness ==
    /\ pc = "done"
    /\ ret = 1
    /\ df.rows # <<>>
    /\ Cardinality(AllColumns \ df.columns) = 2
    /\ exc.type = "KeyError"

-----------------------------------------------------------------------------
(* Properties of main *)

\* main has the result of the sequence analyzer / of the summary
Analyzed == stops_seq.columns # {}
Summarized == seq_summary.columns # {}

\* what the stages have produced so far respects the order load, filter, stops
\* file, bar charts, analysis, summary, sequences file, histogram
C6_InOrder ==
    /\ Filtered => file_exists
    /\ STOPS_CSV \in written => Filtered
    /\ USER_HTML \in written => STOPS_CSV \in written
    /\ TEST_HTML \in written => USER_HTML \in written
    /\ PART_HTML \in written => TEST_HTML \in written
    /\ STAGE_HTML \in written => PART_HTML \in written
    /\ Analyzed => STOPS_CSV \in written /\ (stops.rows # <<>> => BarCharts \subseteq written)
    /\ Summarized => Analyzed
    /\ SEQ_CSV \in written => Summarized
    /\ HIST_HTML \in written => SEQ_CSV \in written

C6_Exit ==
    /\ pc # "done" => ret = NoRet /\ printed = <<>>
    /\ pc = "done" =>
          /\ ret \in {0, 1}
          /\ ret = 1 <=> exc # NoExc
          /\ ret = 1 => printed = <<[text |-> "Error:", arg |-> exc.type]>>
          /\ ret = 0 =>
                /\ Filtered /\ Analyzed /\ Summarized
                /\ {STOPS_CSV, SEQ_CSV} \subseteq written
                /\ stops.rows # <<>> => BarCharts \cup {HIST_HTML} \subseteq written

\* a step that raises, and every step after an exception, produces nothing
C6_Abort ==
    /\ exc # NoExc => exc' = exc
    /\ exc' # NoExc => UNCHANGED <<stops, stops_seq, seq_summary, written>>

\* C6: main runs load, filter, stops file, bar charts, analysis, sequences file,
\* histogram in this order; once a stage raises no later stage runs and no file is
\* written, the error is printed once and main returns 1; it returns 0 only when
\* every stage has completed.
C6_FixedOrderAbortOnError == [](C6_InOrder /\ C6_Exit) /\ [][C6_Abort]_vars

\* the write of the sequences file was refused: stops file and charts are there,
\* no histogram, one error line, exit status 1
C6_Witness ==
    /\ pc = "done"
    /\ ret = 1
    /\ Summarized
    /\ stops.rows # <<>>
    /\ written = {STOPS_CSV} \cup BarCharts

\* C7: with an empty Stop Event collection main raises nothing of its own (only
\* the file system can refuse a write) and then returns 0; the analyzer returns
\* an empty collection with the columns sequence_id and sequence_index, both CSV
\* files are written, no bar chart and no histogram is rendered.
C7_EmptyRun ==
    (Filtered /\ stops.rows = <<>>) =>
        /\ exc \in {NoExc, OSError}
        /\ written \cap (BarCharts \cup {HIST_HTML}) = {}
        /\ Analyzed =>
              /\ stops_seq.rows = <<>>
              /\ {"sequence_id", "sequence_index"} \subseteq stops_seq.columns
        /\ Summarized => seq_summary.rows = <<>>
        /\ (pc = "done" /\ exc = NoExc) =>
              /\ ret = 0
              /\ written = {STOPS_CSV, SEQ_CSV}

\* a run log with rows none of which passes the filter, run to the end
C7_Witness ==
    /\ pc = "done"
    /\ ret = 0
    /\ Filtered
    /\ stops.rows = <<>>
    /\ df.rows # <<>>
    /\ written = {STOPS_CSV, SEQ_CSV}

-----------------------------------------------------------------------------
(* Properties of the sequence analyzer and of the summary *)

\* the (test_name, stage_serial) pair of an event; a missing value is one value
Pair(e) == <<e.test_name, e.stage_serial>>

SeqIds == {stops_seq.rows[i].sequence_id : i \in 1..Len(stops_seq.rows)}

\* the positions of the events of one sequence
Members(g) == {i \in 1..Len(stops_seq.rows) : stops_seq.rows[i].sequence_id = g}

\* C3: for a non-empty collection the sequence ids are exactly 1..K, assigned in
\* scan order without gaps, and in every sequence the sequence_index values are
\* exactly 1..N without gaps or repeats, N the number of events of that run.
C3_ContiguousIds ==
    (Analyzed /\ stops_seq.rows # <<>>) =>
        LET R == stops_seq.rows
        IN  /\ SeqIds = 1..Cardinality(SeqIds)
            /\ R[1].sequence_id = 1
            /\ \A i \in 1..(Len(R) - 1) :
                  R[i + 1].sequence_id \in {R[i].sequence_id, R[i].sequence_id + 1}
            /\ \A g \in SeqIds :
                  /\ {R[i].sequence_index : i \in Members(g)} = 1..Cardinality(Members(g))
                  /\ \A i, j \in Members(g) :
                        /\ Pair(R[i]) = Pair(R[j])
                        /\ i < j => R[i].sequence_index < R[j].sequence_index

\* two sequences, one of them with more than one event
C3_Witness ==
    /\ Analyzed
    /\ Cardinality(SeqIds) >= 2
    /\ \E g \in SeqIds : Cardinality(Members(g)) >= 2

\* the order of the scan: test_name, then stage_serial, then test_datetime,
\* missing values behind the texts
InScanOrder(a, b) ==
    \/ CellLess(a.test_name, b.test_name)
    \/ /\ a.test_name = b.test_name
       /\ CellLess(a.stage_serial, b.stage_serial)
    \/ /\ Pair(a) = Pair(b)
       /\ a.test_datetime <= b.test_datetime

\* C4: in the scan over the events sorted by (test_name, stage_serial,
\* test_datetime), at the first row and at every row whose pair differs from the
\* previous row's the sequence_id grows by 1 and sequence_index is 1; at every
\* other row the id stays and the index grows by 1, whatever the timestamps and
\* user names are.
C4_BoundaryIffPairChanges ==
    Analyzed =>
        LET R == stops_seq.rows
        IN  \A i \in 1..Len(R) :
              IF i = 1
              THEN R[i].sequence_id = 1 /\ R[i].sequence_index = 1
              ELSE /\ InScanOrder(R[i - 1], R[i])
                   /\ IF Pair(R[i]) # Pair(R[i - 1])
                      THEN /\ R[i].sequence_id = R[i - 1].sequence_id + 1
                           /\ R[i].sequence_index = 1
                      ELSE /\ R[i].sequence_id = R[i - 1].sequence_id
                           /\ R[i].sequence_index = R[i - 1].sequence_index + 1

\* a boundary, and a row that continues a sequence at a later time under another user
C4_Witness ==
    /\ Analyzed
    /\ \E i \in 2..Len(stops_seq.rows) :
          Pair(stops_seq.rows[i]) # Pair(stops_seq.rows[i - 1])
    /\ \E i \in 2..Len(stops_seq.rows) :
          /\ Pair(stops_seq.rows[i]) = Pair(stops_seq.rows[i - 1])
          /\ stops_seq.rows[i].user_name # stops_seq.rows[i - 1].user_name
          /\ stops_seq.rows[i].test_datetime > stops_seq.rows[i - 1].test_datetime

\* C5: the summary has exactly one row per sequence_id of its input; num_stops is
\* the number of events of the sequence, start_time the least and end_time the
\* greatest test_datetime among them.
C5_SummaryPerSequence ==
    Summarized =>
        LET S == seq_summary.rows
            R == stops_seq.rows
        IN  /\ Len(S) = Cardinality(SeqIds)
            /\ {S[k].sequence_id : k \in 1..Len(S)} = SeqIds
            /\ \A k \in 1..Len(S) :
                  LET M == Members(S[k].sequence_id)
                  IN  /\ S[k].num_stops = Cardinality(M)
                      /\ \E i \in M : S[k].start_time = R[i].test_datetime
                      /\ \E i \in M : S[k].end_time = R[i].test_datetime
                      /\ \A i \in M : /\ S[k].start_time <= R[i].test_datetime
                                      /\ S[k].end_time >= R[i].test_datetime

\* a sequence of one event and a sequence that spans two times
C5_Witness ==
    /\ Summarized
    /\ \E k \in 1..Len(seq_summary.rows) :
          /\ seq_summary.rows[k].num_stops = 1
          /\ seq_summary.rows[k].start_time = seq_summary.rows[k].end_time
    /\ \E k \in 1..Len(seq_summary.rows) :
          /\ seq_summary.rows[k].num_stops >= 2
          /\ seq_summary.rows[k].start_time < seq_summary.rows[k].end_time

\* the first event of a sequence in scan order
FirstOf(g) == CHOOSE i \in Members(g) : stops_seq.rows[i].sequence_index = 1

RECURSIVE SumNumStops(_)
SumNumStops(rows) == IF rows = <<>> THEN 0 ELSE Head(rows).num_stops + SumNumStops(Tail(rows))

\* C10: every distinct (test_name, stage_serial) pair among the Stop Events is
\* exactly one sequence: two events have the same sequence_id exactly when they
\* have the same pair, there are as many sequences as distinct pairs, and the
\* num_stops of the summary add up to the number of Stop Events.
C10_OneSequencePerPair ==
    Summarized =>
        LET R == stops_seq.rows
        IN  /\ \A i, j \in 1..Len(R) :
                  (R[i].sequence_id = R[j].sequence_id) <=> (Pair(R[i]) = Pair(R[j]))
            /\ Len(seq_summary.rows) =
                  Cardinality({Pair(stops.rows[i]) : i \in 1..Len(stops.rows)})
            /\ SumNumStops(seq_summary.rows) = Len(stops.rows)

\* in time order a stop of another pair lies strictly between two stops of one pair
C10_Witness ==
    /\ Summarized
    /\ Len(stops.rows) = 3
    /\ Pair(stops.rows[1]) = Pair(stops.rows[3])
    /\ Pair(stops.rows[1]) # Pair(stops.rows[2])
    /\ stops.rows[1].test_datetime < stops.rows[2].test_datetime
    /\ stops.rows[2].test_datetime < stops.rows[3].test_datetime
    /\ Len(seq_summary.rows) = 2

=============================================================================
